---- MODULE Spec2Model ----
(***************************************************************************)
(* A model of src/main.py: the run of the scraper (format validation, the  *)
(* HTTP login, the transaction sync over one websocket channel with its    *)
(* paging loop and detail enrichment, the profile fetch over a second      *)
(* channel), with the server and the transport as the environment.         *)
(*                                                                         *)
(* Coroutines are cut at their suspension points (each await is one        *)
(* action); the synchronous code between two awaits is cut further only    *)
(* where a claim speaks of the order of its steps.                         *)
(***************************************************************************)
EXTENDS Integers, Sequences, FiniteSets, TLC

(***************************************************************************)
(* Bounds of the model.                                                    *)
(***************************************************************************)
\* The server serves at most MaxPages pages that ask for a further request
\* (non-empty items and a non-empty cursor); after that it ends the chain.
MaxPages == 1
\* The server's timeline holds at most MaxItems transactions in all.
MaxItems == 2
\* A batch handed to the normalization pipeline holds at most MaxBatch records.
MaxBatch == 3

(***************************************************************************)
(* JSON values, as json.loads builds them. A dict keeps insertion order,   *)
(* so an object is a sequence of key/value pairs with distinct keys.       *)
(***************************************************************************)
JNull == [t |-> "null"]
JStr(s) == [t |-> "str", s |-> s]
JList(l) == [t |-> "list", l |-> l]
JObj(kv) == [t |-> "obj", kv |-> kv]
\* A number, kept as the characters of its literal (digits, with at most one
\* "." followed by digits).
JNum(chars) == [t |-> "num", c |-> chars]
KV(k, v) == [k |-> k, v |-> v]

IsObj(v) == v.t = "obj"
IsList(v) == v.t = "list"

\* Python truthiness of a JSON value (`if x:` / `if not x:`).
Truthy(v) ==
    CASE v.t = "null" -> FALSE
      [] v.t = "str" -> v.s # ""
      [] v.t = "list" -> v.l # <<>>
      [] v.t = "obj" -> v.kv # <<>>

Keys(obj) == {obj.kv[i].k : i \in DOMAIN obj.kv}

\* dict.get(key, default)
Get(obj, key, default) ==
    IF key \in Keys(obj)
    THEN LET i == CHOOSE j \in DOMAIN obj.kv : obj.kv[j].k = key IN obj.kv[i].v
    ELSE default

\* dict.__setitem__: an existing key keeps its place, a new key goes last.
SetItem(obj, key, val) ==
    IF key \in Keys(obj)
    THEN JObj([i \in DOMAIN obj.kv |->
                 IF obj.kv[i].k = key THEN KV(key, val) ELSE obj.kv[i]])
    ELSE JObj(Append(obj.kv, KV(key, val)))

\* dict.update(other): a key of obj keeps its place and takes other's
\* value, other's new keys follow in other's order.
Update(obj, other) ==
    LET NewKey(p) == p.k \notin Keys(obj) IN
    JObj([i \in DOMAIN obj.kv |->
            KV(obj.kv[i].k, Get(other, obj.kv[i].k, obj.kv[i].v))]
         \o SelectSeq(other.kv, NewKey))

\* The dict built by d[k] = v over a sequence of pairs: a key stands where
\* it was first set and holds the value it was last set to.
FromPairs(pairs) ==
    LET firsts == {i \in DOMAIN pairs : \A j \in 1..(i - 1) : pairs[j].k # pairs[i].k}
        Nth(r) == CHOOSE i \in firsts : Cardinality({j \in firsts : j <= i}) = r
        Last(key) == CHOOSE i \in DOMAIN pairs :
                        /\ pairs[i].k = key
                        /\ \A j \in DOMAIN pairs : pairs[j].k = key => j <= i
    IN JObj([r \in 1..Cardinality(firsts) |->
               KV(pairs[Nth(r)].k, pairs[Last(pairs[Nth(r)].k)].v)])

(***************************************************************************)
(* Raw frames. A frame is a text, modelled as a sequence of tokens: the    *)
(* four delimiters the code searches for, a noise token (text with no      *)
(* delimiter in it, such as the status prefix "1 A "), and a content token *)
(* that stands for the well-formed member text of an object or the element *)
(* text of an array (its own nested delimiters are balanced and lie        *)
(* strictly inside the outer pair, so find/rfind never stop on them).      *)
(***************************************************************************)
LBrace == [c |-> "{"]
RBrace == [c |-> "}"]
LBracket == [c |-> "["]
RBracket == [c |-> "]"]
Noise == [c |-> "#"]
Members(kv) == [c |-> "members", v |-> kv]
Elements(l) == [c |-> "elements", v |-> l]

\* str.find(ch): the 0-based index of the first occurrence, -1 when there is none.
Find(text, ch) ==
    IF \E i \in DOMAIN text : text[i] = ch
    THEN (CHOOSE i \in DOMAIN text :
            text[i] = ch /\ \A j \in DOMAIN text : text[j] = ch => i <= j) - 1
    ELSE -1

\* str.rfind(ch): the 0-based index of the last occurrence, -1 when there is none.
RFind(text, ch) ==
    IF \E i \in DOMAIN text : text[i] = ch
    THEN (CHOOSE i \in DOMAIN text :
            text[i] = ch /\ \A j \in DOMAIN text : text[j] = ch => j <= i) - 1
    ELSE -1

\* text[a:b] for 0 <= a, 0 <= b (empty when b <= a).
Slice(text, a, b) == SubSeq(text, a + 1, b)

\* The substring handed to json.loads: first opener to last closer, or the
\* literal fallback text when either is missing.
FrameText(text, open, close) ==
    LET start_index == Find(text, open)
        end_index == RFind(text, close)
    IN IF start_index # -1 /\ end_index # -1
       THEN Slice(text, start_index, end_index + 1)
       ELSE <<open, close>>

\* json.loads raises json.JSONDecodeError on anything but one JSON document.
JSONDecodeError == [t |-> "JSONDecodeError"]

JsonLoads(text) ==
    CASE text = <<LBrace, RBrace>> -> JObj(<<>>)
      [] text = <<LBracket, RBracket>> -> JList(<<>>)
      [] Len(text) = 3 /\ text[1] = LBrace /\ text[3] = RBrace
            /\ text[2].c = "members" -> JObj(text[2].v)
      [] Len(text) = 3 /\ text[1] = LBracket /\ text[3] = RBracket
            /\ text[2].c = "elements" -> JList(text[2].v)
      [] OTHER -> JSONDecodeError

ExtractObject(response) == JsonLoads(FrameText(response, LBrace, RBrace))
ExtractArray(response) == JsonLoads(FrameText(response, LBracket, RBracket))

(***************************************************************************)
(* The environment's inputs: the configuration, the transaction items, the *)
(* page, detail and profile payloads, and the frames that carry them.      *)
(***************************************************************************)
\* str.lower() on the letters that occur in the configured formats.
LowerChar(c) ==
    CASE c = "J" -> "j" [] c = "S" -> "s" [] c = "O" -> "o" [] c = "N" -> "n"
      [] c = "C" -> "c" [] c = "V" -> "v" [] c = "X" -> "x" [] c = "M" -> "m"
      [] c = "L" -> "l" [] OTHER -> c

Lower(s) == [i \in DOMAIN s |-> LowerChar(s[i])]

\* output_format values of config.ini, as character sequences.
Formats ==
    { <<"j", "s", "o", "n">>, <<"C", "S", "V">>,
      <<"X", "M", "L">>, <<"j", "s", "o", "n", "l">>, <<>> }

KnownFormats == { <<"j", "s", "o", "n">>, <<"c", "s", "v">> }

\* A transaction with an id, one with an empty id, one with no id.
ItemWithId == JObj(<<KV("id", JStr("t1")), KV("title", JStr("Buy"))>>)
ItemEmptyId == JObj(<<KV("id", JStr("")), KV("title", JStr("Fee"))>>)
ItemNoId == JObj(<<KV("title", JStr("Tax"))>>)
Items == {ItemWithId, ItemEmptyId, ItemNoId}

ItemLists == UNION {[1..n -> Items] : n \in 0..MaxItems}

\* The server's cursors: the page that answers the n-th request names the
\* position after it.
CursorNames == <<"c1", "c2", "c3", "c4", "c5">>
Cursor(n) == CursorNames[n]

\* The `items` member of a page: absent, null, or a list of transactions.
ItemsMember ==
    {<<>>, <<KV("items", JNull)>>} \cup {<<KV("items", JList(l))>> : l \in ItemLists}

\* The `cursors` member of a page: absent, null, {}, or {"after": null | "" | c}.
CursorsMember(c) ==
    {<<>>, <<KV("cursors", JNull)>>, <<KV("cursors", JObj(<<>>))>>,
     <<KV("cursors", JObj(<<KV("after", JNull)>>))>>,
     <<KV("cursors", JObj(<<KV("after", JStr(""))>>))>>,
     <<KV("cursors", JObj(<<KV("after", JStr(c))>>))>>}

\* The payloads the server may answer the n-th page request with.
PagePayloads(n) == {i \o c : i \in ItemsMember, c \in CursorsMember(Cursor(n))}

\* The text "<status> {members}" ("<status> {}" for no member).
ObjectFrame(kv) ==
    IF kv = <<>> THEN <<Noise, LBrace, RBrace>>
    ELSE <<Noise, LBrace, Members(kv), RBrace>>

\* Frames that are not "<status> <one JSON object>": a status with no
\* object, an object cut before its closing brace, braces around text that
\* is no JSON, and a closing brace before the only opening one.
StatusOnlyFrame == <<Noise>>
UnclosedFrame == <<Noise, LBrace, Noise>>
GarbageFrame == <<Noise, LBrace, Noise, RBrace>>
ReversedFrame == <<RBrace, Noise, LBrace>>
MalformedFrames == {StatusOnlyFrame, UnclosedFrame, GarbageFrame, ReversedFrame}

PageFrames(n) == {ObjectFrame(p) : p \in PagePayloads(n)} \cup MalformedFrames

\* timelineDetailV2 payloads: with and without a section titled Transaction.
OverviewSection ==
    JObj(<<KV("title", JStr("Overview")),
           KV("data", JList(<<JObj(<<KV("title", JStr("Note")),
                                     KV("detail", JObj(<<KV("text", JStr("n"))>>))>>)>>))>>)
TransactionSection ==
    JObj(<<KV("title", JStr("Transaction")),
           KV("data", JList(<<
               JObj(<<KV("title", JStr("Status")),
                      KV("detail", JObj(<<KV("text", JStr("Done"))>>))>>),
               JObj(<<KV("title", JStr("title")),
                      KV("detail", JObj(<<KV("text", JStr("Achat"))>>))>>),
               JObj(<<KV("title", JStr("Blank")), KV("detail", JObj(<<>>))>>),
               JObj(<<KV("title", JStr("Bare"))>>)>>))>>)
DetailWithTransaction ==
    <<KV("sections", JList(<<OverviewSection, TransactionSection>>))>>
DetailWithoutTransaction == <<KV("sections", JList(<<OverviewSection>>))>>
\* A detail whose Transaction section has an entry titled like a key of the item.
IdSection ==
    JObj(<<KV("title", JStr("Transaction")),
           KV("data", JList(<<
               JObj(<<KV("title", JStr("id")),
                      KV("detail", JObj(<<KV("text", JStr("t9"))>>))>>)>>))>>)
DetailWithIdEntry == <<KV("sections", JList(<<IdSection>>))>>

DetailFrames ==
    {ObjectFrame(DetailWithTransaction), ObjectFrame(DetailWithoutTransaction),
     ObjectFrame(DetailWithIdEntry), StatusOnlyFrame, GarbageFrame}

\* availableCash frames: "<status> [records]", "<status> []", and malformed ones.
CashRecord ==
    JObj(<<KV("accountNumber", JStr("a1")),
           KV("amount", JObj(<<KV("value", JStr("10")), KV("currency", JStr("EUR"))>>))>>)
ArrayFrame(l) ==
    IF l = <<>> THEN <<Noise, LBracket, RBracket>>
    ELSE <<Noise, LBracket, Elements(l), RBracket>>
ProfileFrames ==
    {ArrayFrame(<<CashRecord>>), ArrayFrame(<<>>), StatusOnlyFrame,
     <<Noise, LBracket, Noise, RBracket>>}

\* The records handed to the csv output: nested amounts, a timestamp that
\* parses and one that does not, an amount that is no number, a missing
\* value, an empty mapping, a list, a key that is a mapping in one record
\* and a leaf in another, and keys in another order.
RecFull ==
    JObj(<<KV("id", JStr("t1")), KV("timestamp", JStr("2024-03-05T10:00:00Z")),
           KV("amount", JObj(<<KV("value", JNum(<<"1", "2", "3", "4", ".", "5">>)),
                               KV("fractionDigits", JNum(<<"2">>))>>))>>)
RecBad ==
    JObj(<<KV("id", JStr("t2")), KV("timestamp", JStr("soon")),
           KV("amount", JObj(<<KV("value", JStr("abc")), KV("currency", JStr("EUR"))>>))>>)
RecInt ==
    JObj(<<KV("id", JStr("t3")), KV("timestamp", JStr("2023-12-31T23:59:59.000+0000")),
           KV("amount", JObj(<<KV("value", JNum(<<"1", "0">>))>>)), KV("status", JNull)>>)
RecFlat == JObj(<<KV("title", JStr("Fee")), KV("id", JStr("t4"))>>)
RecEmptyMap == JObj(<<KV("amount", JObj(<<>>)), KV("tags", JList(<<JStr("x")>>))>>)
RecLeafAmount == JObj(<<KV("amount", JStr("n/a")), KV("timestamp", JNull)>>)
Records == {RecFull, RecBad, RecInt, RecFlat, RecEmptyMap, RecLeafAmount}

Batches == UNION {[1..n -> Records] : n \in 0..MaxBatch}

(***************************************************************************)
(* The normalization pipeline: flatten_and_clean_json, the DataFrame built *)
(* from its result, dropna and transform_data_types.                       *)
(***************************************************************************)
\* The separator of flattened keys (the default of the `sep` parameter).
sep == "."

\* flatten(nested_json, parent_key), lines 45-58, from entry i on: the
\* entries of nested_json are walked in order; a mapping value is flattened
\* under the joined key and merged into flat_dict, any other value is stored
\* at the joined key; then the joined key itself is recorded in all_keys if
\* it is not there yet (for a mapping value as well as for a leaf).
\* (Each intermediate result is bound to its value by a one-element set, so
\* that it is computed once.)
RECURSIVE flatten(_, _, _, _, _)
flatten(nested_json, i, parent_key, flat_dict, all_keys) ==
    IF i > Len(nested_json.kv)
    THEN [flat_dict |-> flat_dict, all_keys |-> all_keys]
    ELSE LET key == nested_json.kv[i].k
             value == nested_json.kv[i].v
             new_key == IF parent_key # "" THEN parent_key \o sep \o key ELSE key
             Record(keys) ==
                 IF \E k \in DOMAIN keys : keys[k] = new_key
                 THEN keys ELSE Append(keys, new_key)
         IN CHOOSE result \in
              {flatten(nested_json, i + 1, parent_key, step.flat_dict, step.all_keys) :
                 step \in
                   IF IsObj(value)
                   THEN {[flat_dict |-> Update(flat_dict, inner.flat_dict),
                          all_keys |-> Record(inner.all_keys)] :
                            inner \in {flatten(value, 1, new_key, JObj(<<>>), all_keys)}}
                   ELSE {[flat_dict |-> SetItem(flat_dict, new_key, value),
                          all_keys |-> Record(all_keys)]}} : TRUE

\* Lines 61-63: the items are flattened one after the other, all_keys
\* growing across them.
RECURSIVE FlattenAll(_, _, _, _)
FlattenAll(records, i, flattened, all_keys) ==
    IF i > Len(records)
    THEN [flattened_data |-> flattened, all_keys |-> all_keys]
    ELSE CHOOSE result \in
           {FlattenAll(records, i + 1, Append(flattened, flat_item.flat_dict),
                       flat_item.all_keys) :
              flat_item \in {flatten(records[i], 1, "", JObj(<<>>), all_keys)}} : TRUE

\* Lines 42-70: every flattened item is rebuilt over all_keys, None standing
\* for a key it does not have.
flatten_and_clean_json(records) ==
    CHOOSE complete_data \in
      {[r \in DOMAIN done.flattened_data |->
          JObj([k \in DOMAIN done.all_keys |->
                  KV(done.all_keys[k],
                     Get(done.flattened_data[r], done.all_keys[k], JNull))])] :
         done \in {FlattenAll(records, 1, <<>>, <<>>)}} : TRUE

\* pd.DataFrame(flattened_data): the rows are kept as records over the same
\* columns; the columns are the keys of the first row, in order.
Columns(frame) == [k \in DOMAIN frame[1].kv |-> frame[1].kv[k].k]

\* pd.isna of a cell.
IsNa(cell) == cell.t = "null"

\* Line 238, df.dropna(axis=1, how="all"): the columns whose cells are all
\* missing are dropped.
DropNa(frame) ==
    LET AllNa(col) == \A r \in DOMAIN frame : IsNa(Get(frame[r], col, JNull))
        Kept(p) == ~AllNa(p.k)
    IN [r \in DOMAIN frame |-> JObj(SelectSeq(frame[r].kv, Kept))]

\* The timestamps of the model's inputs that denote a date, with the date
\* and with the format pandas guesses for them; any other text has neither.
NaT == [y |-> "", m |-> "", d |-> ""]
ParseDate(cell) ==
    IF cell.t # "str" THEN NaT
    ELSE CASE cell.s = "2024-03-05T10:00:00Z" -> [y |-> "2024", m |-> "03", d |-> "05"]
           [] cell.s = "2023-12-31T23:59:59.000+0000" -> [y |-> "2023", m |-> "12", d |-> "31"]
           [] OTHER -> NaT
GuessFormat(cell) ==
    IF cell.t # "str" THEN ""
    ELSE CASE cell.s = "2024-03-05T10:00:00Z" -> "%Y-%m-%dT%H:%M:%S%z"
           [] cell.s = "2023-12-31T23:59:59.000+0000" -> "%Y-%m-%dT%H:%M:%S.%f%z"
           [] OTHER -> ""

\* The position of the first cell of a column that is not missing (0 if
\* there is none).
FirstNotNa(cells) ==
    IF \A r \in DOMAIN cells : IsNa(cells[r]) THEN 0
    ELSE CHOOSE r \in DOMAIN cells :
            ~IsNa(cells[r]) /\ \A q \in 1..(r - 1) : IsNa(cells[q])

\* pd.to_datetime(column, errors="coerce") (pandas 2): one format is guessed
\* from the first cell that is not missing and every cell is read in that
\* format, a cell of another format or of no date becoming NaT; when no
\* format can be guessed from that cell, each cell is read on its own.
ToDatetime(cells) ==
    LET first == FirstNotNa(cells)
        format == IF first = 0 THEN "" ELSE GuessFormat(cells[first])
    IN [r \in DOMAIN cells |->
          IF format = "" \/ GuessFormat(cells[r]) = format
          THEN ParseDate(cells[r])
          ELSE NaT]

\* .dt.strftime("%d/%m/%Y"): NaT gives a missing value.
Strftime(date) ==
    IF date = NaT THEN JNull
    ELSE JStr(date.d \o "/" \o date.m \o "/" \o date.y)

\* pd.to_numeric(errors="coerce") of a cell: a number is kept, text that is
\* no number and a missing value become NaN.
ToNumeric(cell) == IF cell.t = "num" THEN cell ELSE JNull

\* The column pd.to_numeric returns is int64 when every cell is an integer,
\* float64 as soon as one is NaN or has a fraction.
IsFloat(cells) ==
    \E r \in DOMAIN cells :
        \/ IsNa(cells[r])
        \/ \E k \in DOMAIN cells[r].c : cells[r].c[k] = "."

\* str(x) of a number of the column: a float64 integer shows a ".0".
StrOf(number, float) ==
    IF float /\ ~(\E k \in DOMAIN number.c : number.c[k] = ".")
    THEN number.c \o <<".", "0">>
    ELSE number.c

\* str.replace(".", ","), and the characters as one text.
ReplaceDot(chars) == [k \in DOMAIN chars |-> IF chars[k] = "." THEN "," ELSE chars[k]]
RECURSIVE Text(_)
Text(chars) == IF chars = <<>> THEN "" ELSE Head(chars) \o Text(Tail(chars))

\* Lines 96-98: lambda x: str(x).replace(".", ",") if pd.notna(x) else x.
AmountCell(x, float) ==
    IF ~IsNa(x) THEN JStr(Text(ReplaceDot(StrOf(x, float)))) ELSE x

timestamp_columns == {"timestamp"}
amount_columns ==
    {"amount.value", "amount.fractionDigits", "subAmount.value", "subAmount.fractionDigits"}

\* Lines 82-100: each designated column that the frame has is replaced by
\* its coerced cells; the other columns are not assigned.
transform_data_types(frame) ==
    LET column(col) == [r \in DOMAIN frame |-> Get(frame[r], col, JNull)]
        numeric(col) == [r \in DOMAIN frame |-> ToNumeric(Get(frame[r], col, JNull))]
        Cell(r, col) ==
            IF col \in timestamp_columns
            THEN Strftime(ToDatetime(column(col))[r])
            ELSE IF col \in amount_columns
                 THEN AmountCell(numeric(col)[r], IsFloat(numeric(col)))
                 ELSE Get(frame[r], col, JNull)
    IN [r \in DOMAIN frame |->
          JObj([k \in DOMAIN frame[r].kv |->
                  KV(frame[r].kv[k].k, Cell(r, frame[r].kv[k].k))])]

(***************************************************************************)
(* The state of a run.                                                     *)
(***************************************************************************)
VARIABLES
    pc,               \* where the run stands
    output_format,    \* config: general/output_format
    extract_details,  \* config: general/extract_details
    http,             \* whether an HTTP request has been sent
    task,             \* the coroutine asyncio.run is running: "none", "tx", "profile"
    chans,            \* the websocket transports opened so far, oldest first
    wire,             \* the frames sent and received on them, oldest first
    message_id,       \* fetch_all_transactions: message_id
    after_cursor,     \* fetch_all_transactions: after_cursor
    all_data,         \* fetch_all_transactions: all_data
    response,         \* the raw response frame held by the running coroutine
    data,             \* fetch_all_transactions: data (the decoded page)
    idx,              \* position of the for loop over data["items"]
    det_message_id,   \* fetch_transaction_details: its local message_id
    files,            \* the output files written
    error,            \* the exception that ended the run, "none" if none
    served,           \* the items of the well-formed pages the server sent
    env_ok,           \* the transport never failed, every page had the documented
                      \* shape and every detail frame could be decoded
    flattened_data,   \* fetch_all_transactions: flattened_data (csv output)
    df                \* fetch_all_transactions: df (csv output)

vars == <<pc, output_format, extract_details, http, task, chans, wire, message_id,
          after_cursor, all_data, response, data, idx, det_message_id, files,
          error, served, env_ok, flattened_data, df>>

paging == <<message_id, after_cursor, all_data, response, data, idx, det_message_id>>
config == <<output_format, extract_details>>
tabular == <<flattened_data, df>>

\* No frame held / no page decoded: the variable is not bound yet, or no
\* longer read.
NoFrame == <<>>
NoData == JNull

\* The steps that run inside `async with ... as websocket:`.
WithPcs ==
    {"page_sub_send", "page_sub_recv", "page_unsub_send", "page_unsub_recv",
     "page_decode", "extend", "item", "det_sub_send", "det_sub_recv",
     "det_unsub_send", "det_unsub_recv", "det_decode", "cursor",
     "prof_sub_send", "prof_sub_recv", "prof_decode"}

\* The steps that await the transport.
SendPcs ==
    {"hs_send", "page_sub_send", "page_unsub_send", "det_sub_send",
     "det_unsub_send", "prof_sub_send"}
RecvPcs ==
    {"hs_recv", "page_sub_recv", "page_unsub_recv", "det_sub_recv",
     "det_unsub_recv", "prof_sub_recv"}

\* The transport the running coroutine holds: the one opened last.
Cur == Len(chans)

\* A frame on the wire: the transport and the coroutine that used it, the
\* frame's kind and request id, for a `sub` the payload's type and its
\* `after` or `id` member (null when it has none), and whether the
\* transport was open at that moment.
Sent(op, id, type, arg) ==
    [ch |-> Cur, task |-> task, dir |-> "send", op |-> op, id |-> id,
     type |-> type, arg |-> arg, open |-> chans[Cur].open]
Received(op, id) ==
    [ch |-> Cur, task |-> task, dir |-> "recv", op |-> op, id |-> id,
     type |-> "", arg |-> JNull, open |-> chans[Cur].open]

\* WebSocketClientProtocol.__aexit__: close the transport.
Closed(cs) == [cs EXCEPT ![Len(cs)].open = FALSE]

\* An exception raised at the current step: inside the `async with` the
\* transport is closed on the way out; asyncio.run re-raises and the run ends.
Raise(exc) ==
    /\ error' = exc
    /\ pc' = "aborted"
    /\ chans' = IF pc \in WithPcs THEN Closed(chans) ELSE chans

Init ==
    /\ pc = "start"
    /\ output_format \in Formats
    /\ extract_details \in BOOLEAN
    /\ http = FALSE
    /\ task = "none"
    /\ chans = <<>>
    /\ wire = <<>>
    /\ message_id = 0
    /\ after_cursor = JNull
    /\ all_data = <<>>
    /\ response = NoFrame
    /\ data = NoData
    /\ idx = 0
    /\ det_message_id = 0
    /\ files = {}
    /\ error = "none"
    /\ served = <<>>
    /\ env_ok = TRUE
    /\ flattened_data = <<>>
    /\ df = <<>>

(***************************************************************************)
(* __main__: configuration, format validation, login.                      *)
(***************************************************************************)
\* Mutant of Validate: the message is printed but exit() is not called.
Validate_NoExit ==
    /\ pc = "start"
    /\ pc' = "login"
    /\ UNCHANGED <<tabular, config, http, task, chans, wire, paging, files, error, served, env_ok>>

\* Lines 299-303: an unknown format ends the run.
Validate ==
    /\ pc = "start"
    /\ pc' = IF Lower(output_format) \notin KnownFormats THEN "exited" ELSE "login"
    /\ UNCHANGED <<tabular, config, http, task, chans, wire, paging, files, error, served, env_ok>>

\* Lines 309-322: the login request; no processId ends the run.
Login ==
    /\ pc = "login"
    /\ http' = TRUE
    /\ \E process_id \in {"", "p1"} :
          pc' = IF process_id = "" THEN "exited" ELSE "twofa"
    /\ UNCHANGED <<tabular, config, task, chans, wire, paging, files, error, served, env_ok>>

\* Lines 325-357: the 2FA code (resent by SMS on demand), the device
\* verification and the session token; then asyncio.run(fetch_all_transactions).
TwoFactor ==
    /\ pc = "twofa"
    /\ \E code \in {"SMS", "1234"}, status_code \in {200, 401}, session_token \in {"", "tok"} :
          /\ http' = TRUE
          /\ IF status_code # 200 \/ session_token = ""
             THEN /\ pc' = "exited"
                  /\ task' = task
             ELSE /\ pc' = "connect"
                  /\ task' = "tx"
    /\ UNCHANGED <<tabular, config, chans, wire, paging, files, error, served, env_ok>>

(***************************************************************************)
(* connect_to_websocket, run by both coroutines.                           *)
(***************************************************************************)
\* Line 109: websockets.connect opens the transport.
Connect ==
    /\ pc = "connect"
    /\ chans' = Append(chans, [owner |-> task, open |-> TRUE])
    /\ pc' = "hs_send"
    /\ UNCHANGED <<tabular, config, http, task, wire, paging, files, error, served, env_ok>>

\* Line 117: the connect frame.
HandshakeSend ==
    /\ pc = "hs_send"
    /\ wire' = Append(wire, Sent("connect", 0, "", JNull))
    /\ pc' = "hs_recv"
    /\ UNCHANGED <<tabular, config, http, task, chans, paging, files, error, served, env_ok>>

\* Lines 118-121, and 189-190 or 252-253: the connect response is dropped,
\* the caller enters its `async with` body.
HandshakeRecv ==
    /\ pc = "hs_recv"
    /\ wire' = Append(wire, Received("connect", 0))
    /\ pc' = IF task = "tx" THEN "page_sub_send" ELSE "prof_sub_send"
    /\ UNCHANGED <<tabular, config, http, task, chans, paging, files, error, served, env_ok>>

\* Mutant of TransportFail: the failure is caught inside the coroutine, which
\* goes on to write what it has accumulated.
TransportFail_Caught ==
    /\ pc \in {"connect"} \cup SendPcs \cup RecvPcs
    /\ error' = "ConnectionClosed"
    /\ pc' = IF task = "tx" THEN "tx_write" ELSE "aborted"
    /\ chans' = IF pc \in WithPcs THEN Closed(chans) ELSE chans
    /\ env_ok' = FALSE
    /\ UNCHANGED <<tabular, config, http, task, wire, paging, files, served>>

\* Any await on the transport may raise instead (the connection cannot be
\* made, or is lost): nothing is sent or received at that step, and the
\* frame and the page the coroutine held are gone with its stack.
TransportFail ==
    /\ pc \in {"connect"} \cup SendPcs \cup RecvPcs
    /\ Raise("ConnectionClosed")
    /\ env_ok' = FALSE
    /\ response' = NoFrame
    /\ data' = NoData
    /\ UNCHANGED <<tabular, config, http, task, wire, message_id, after_cursor, all_data,
                   idx, det_message_id, files, served>>

(***************************************************************************)
(* The server's side of a page frame.                                      *)
(***************************************************************************)
\* The frame is "<status> {members}".
IsObjectFrame(f) == Len(f) = 4 /\ f[3].c = "members"

\* The items the frame serves: its `items` list, if it carries one.
ServedItems(f) ==
    IF IsObjectFrame(f) /\ IsList(Get(JObj(f[3].v), "items", JNull))
    THEN Get(JObj(f[3].v), "items", JNull).l
    ELSE <<>>

\* The frame has the documented shape {items: [...], cursors: {after?}}.
IsShapedPage(f) ==
    /\ IsObjectFrame(f)
    /\ IsList(Get(JObj(f[3].v), "items", JNull))
    /\ IsObj(Get(JObj(f[3].v), "cursors", JNull))

\* The frame asks for a further request: some items and a non-empty cursor.
Continues(f) ==
    /\ IsShapedPage(f)
    /\ ServedItems(f) # <<>>
    /\ Truthy(Get(Get(JObj(f[3].v), "cursors", JNull), "after", JNull))

\* The timelineTransactions requests sent so far.
PageRequests ==
    Cardinality({i \in DOMAIN wire :
        wire[i].dir = "send" /\ wire[i].type = "timelineTransactions"})

\* The `cursors.after` the frame carries: null when it has none to read.
PageCursorOf(f) ==
    IF IsObjectFrame(f) /\ IsObj(Get(JObj(f[3].v), "cursors", JNull))
    THEN Get(Get(JObj(f[3].v), "cursors", JNull), "after", JNull)
    ELSE JNull

\* A page response on the wire, with what it carried: whether it had items
\* (type "items") and its `cursors.after`.
ReceivedPage(id, f) ==
    [Received("sub", id) EXCEPT !.type = IF ServedItems(f) # <<>> THEN "items" ELSE "",
                                !.arg = PageCursorOf(f)]

(***************************************************************************)
(* fetch_all_transactions: the paging loop.                                *)
(***************************************************************************)
\* Mutant of PageSubSend: the request never carries the cursor.
PageSubSend_NoCursor ==
    /\ pc = "page_sub_send"
    /\ message_id' = message_id + 1
    /\ wire' = Append(wire, Sent("sub", message_id + 1, "timelineTransactions", JNull))
    /\ pc' = "page_sub_recv"
    /\ UNCHANGED <<tabular, config, http, task, chans, after_cursor, all_data, response, data,
                   idx, det_message_id, files, error, served, env_ok>>

\* Lines 192-197: the next page subscription, with the cursor if there is one.
PageSubSend ==
    /\ pc = "page_sub_send"
    /\ message_id' = message_id + 1
    /\ wire' = Append(wire, Sent("sub", message_id + 1, "timelineTransactions",
                                 IF Truthy(after_cursor) THEN after_cursor ELSE JNull))
    /\ pc' = "page_sub_recv"
    /\ UNCHANGED <<tabular, config, http, task, chans, after_cursor, all_data, response, data,
                   idx, det_message_id, files, error, served, env_ok>>

\* Mutant of PageSubRecv: the page subscription is not unsubscribed before
\* the page is processed.
PageSubRecv_NoUnsub ==
    /\ pc = "page_sub_recv"
    /\ \E f \in PageFrames(PageRequests) :
          /\ Len(served) + Len(ServedItems(f)) <= MaxItems
          /\ Continues(f) => PageRequests <= MaxPages
          /\ response' = f
          /\ served' = served \o ServedItems(f)
          /\ env_ok' = (env_ok /\ IsShapedPage(f))
          /\ wire' = Append(wire, ReceivedPage(message_id, f))
    /\ pc' = "page_decode"
    /\ UNCHANGED <<tabular, config, http, task, chans, message_id, after_cursor, all_data, data,
                   idx, det_message_id, files, error>>

\* Line 198: the page response, whatever the server sends (within the bounds).
PageSubRecv ==
    /\ pc = "page_sub_recv"
    /\ \E n \in {PageRequests} : \E f \in PageFrames(n) :
          /\ Len(served) + Len(ServedItems(f)) <= MaxItems
          /\ Continues(f) => n <= MaxPages
          /\ response' = f
          /\ served' = served \o ServedItems(f)
          /\ env_ok' = (env_ok /\ IsShapedPage(f))
          /\ wire' = Append(wire, ReceivedPage(message_id, f))
    /\ pc' = "page_unsub_send"
    /\ UNCHANGED <<tabular, config, http, task, chans, message_id, after_cursor, all_data, data,
                   idx, det_message_id, files, error>>

\* Line 199.
PageUnsubSend ==
    /\ pc = "page_unsub_send"
    /\ wire' = Append(wire, Sent("unsub", message_id, "", JNull))
    /\ pc' = "page_unsub_recv"
    /\ UNCHANGED <<tabular, config, http, task, chans, paging, files, error, served, env_ok>>

\* Line 200: the acknowledgement is dropped.
PageUnsubRecv ==
    /\ pc = "page_unsub_recv"
    /\ wire' = Append(wire, Received("unsub", message_id))
    /\ pc' = "page_decode"
    /\ UNCHANGED <<tabular, config, http, task, chans, paging, files, error, served, env_ok>>

\* Lines 201-213: decode the page; no items ends the loop.
PageDecode ==
    /\ pc = "page_decode"
    /\ \E decoded \in {ExtractObject(response)} :
          IF decoded.t = "JSONDecodeError"
          THEN /\ Raise("JSONDecodeError")
               /\ UNCHANGED <<response, data, idx>>
          ELSE /\ response' = NoFrame
               /\ idx' = 1
               /\ IF ~Truthy(Get(decoded, "items", JNull))
                  THEN /\ data' = NoData
                       /\ pc' = "close"
                  ELSE /\ data' = decoded
                       /\ pc' = IF extract_details THEN "item" ELSE "extend"
               /\ UNCHANGED <<chans, error>>
    /\ UNCHANGED <<tabular, config, http, task, wire, message_id, after_cursor, all_data,
                   det_message_id, files, served, env_ok>>

\* Mutant of ItemsExtend: the cursor is tested before the items are
\* appended, so the items of a page with no cursor are lost.
ItemsExtend_CursorFirst ==
    /\ pc = "extend"
    /\ all_data' = LET cursors == Get(data, "cursors", JObj(<<>>)) IN
                   IF IsObj(cursors) /\ Truthy(Get(cursors, "after", JNull))
                   THEN all_data \o Get(data, "items", JNull).l
                   ELSE all_data
    /\ pc' = "cursor"
    /\ UNCHANGED <<tabular, config, http, task, chans, wire, message_id, after_cursor, response,
                   data, idx, det_message_id, files, error, served, env_ok>>

\* Mutant of ItemsExtend: the page's items are put in front of the accumulator.
ItemsExtend_Prepend ==
    /\ pc = "extend"
    /\ all_data' = Get(data, "items", JNull).l \o all_data
    /\ pc' = "cursor"
    /\ UNCHANGED <<tabular, config, http, task, chans, wire, message_id, after_cursor, response,
                   data, idx, det_message_id, files, error, served, env_ok>>

\* Line 223: without details the page's items are appended as they came.
ItemsExtend ==
    /\ pc = "extend"
    /\ all_data' = all_data \o Get(data, "items", JNull).l
    /\ pc' = "cursor"
    /\ UNCHANGED <<tabular, config, http, task, chans, wire, message_id, after_cursor, response,
                   data, idx, det_message_id, files, error, served, env_ok>>

\* Mutant of ItemNext: an item with no id goes through the enricher too.
ItemNext_AlwaysDetails ==
    /\ pc = "item"
    /\ LET items == Get(data, "items", JNull).l IN
          IF idx > Len(items)
          THEN /\ pc' = "cursor"
               /\ UNCHANGED <<all_data, idx>>
          ELSE /\ pc' = "det_sub_send"
               /\ UNCHANGED <<all_data, idx>>
    /\ UNCHANGED <<tabular, config, http, task, chans, wire, message_id, after_cursor, response,
                   data, det_message_id, files, error, served, env_ok>>

\* Lines 214-216 and 221: the next item of the page; one with no id (or an
\* empty one) is appended as it is, one with an id goes through the enricher.
ItemNext ==
    /\ pc = "item"
    /\ LET items == Get(data, "items", JNull).l IN
          IF idx > Len(items)
          THEN /\ pc' = "cursor"
               /\ UNCHANGED <<all_data, idx>>
          ELSE LET transaction == items[idx]
                   transaction_id == Get(transaction, "id", JNull)
               IN IF Truthy(transaction_id)
                  THEN /\ pc' = "det_sub_send"
                       /\ UNCHANGED <<all_data, idx>>
                  ELSE /\ all_data' = Append(all_data, transaction)
                       /\ idx' = idx + 1
                       /\ pc' = "item"
    /\ UNCHANGED <<tabular, config, http, task, chans, wire, message_id, after_cursor, response,
                   data, det_message_id, files, error, served, env_ok>>

\* Lines 225-227: the next cursor; none ends the loop. A `cursors` member
\* that is no object has no .get: AttributeError.
PageCursor ==
    /\ pc = "cursor"
    /\ LET cursors == Get(data, "cursors", JObj(<<>>)) IN
          IF ~IsObj(cursors)
          THEN /\ Raise("AttributeError")
               /\ UNCHANGED <<after_cursor, data>>
          ELSE /\ after_cursor' = Get(cursors, "after", JNull)
               /\ data' = NoData
               /\ pc' = IF ~Truthy(Get(cursors, "after", JNull)) THEN "close"
                        ELSE "page_sub_send"
               /\ UNCHANGED <<chans, error>>
    /\ UNCHANGED <<tabular, config, http, task, wire, message_id, all_data, response, idx,
                   det_message_id, files, served, env_ok>>

(***************************************************************************)
(* fetch_transaction_details: the detail enricher.                         *)
(***************************************************************************)
IsStr(v, s) == v.t = "str" /\ v.s = s

\* Mutant of TransactionEntries: the title of the section is not tested, the
\* entries of every section are collected.
RECURSIVE TransactionEntries_AnySection(_, _)
TransactionEntries_AnySection(sections, i) ==
    IF i > Len(sections) THEN <<>>
    ELSE Get(sections[i], "data", JList(<<>>)).l
         \o TransactionEntries_AnySection(sections, i + 1)

\* Lines 159-161: the data entries of the sections titled "Transaction",
\* in document order.
RECURSIVE TransactionEntries(_, _)
TransactionEntries(sections, i) ==
    IF i > Len(sections) THEN <<>>
    ELSE (IF IsStr(Get(sections[i], "title", JNull), "Transaction")
          THEN Get(sections[i], "data", JList(<<>>)).l
          ELSE <<>>) \o TransactionEntries(sections, i + 1)

\* Lines 162-164: an entry's title and detail.text; the entry counts when
\* neither is missing or empty.
EntryHeader(item) == Get(item, "title", JNull)
EntryValue(item) == Get(Get(item, "detail", JObj(<<>>)), "text", JNull)
EntryKept(item) == Truthy(EntryHeader(item)) /\ Truthy(EntryValue(item))

\* Lines 162-165: the assignments transaction_data[title] = text, in order.
KeptPairs(entries) ==
    LET kept == SelectSeq(entries, EntryKept)
    IN [i \in DOMAIN kept |-> KV(EntryHeader(kept[i]).s, EntryValue(kept[i]))]

\* Lines 157-167: transaction_data. (Each stage is bound to its value by a
\* one-element set, so that it is computed once.)
TransactionData(response_data) ==
    CHOOSE transaction_data \in
        {FromPairs(pairs) :
            pairs \in {KeptPairs(entries) :
                entries \in {TransactionEntries(
                    Get(response_data, "sections", JList(<<>>)).l, 1)}}} : TRUE

\* Lines 142-144: a fresh id, the detail subscription.
DetailSubSend ==
    /\ pc = "det_sub_send"
    /\ det_message_id' = message_id + 1
    /\ wire' = Append(wire, Sent("sub", message_id + 1, "timelineDetailV2",
                                 Get(Get(data, "items", JNull).l[idx], "id", JNull)))
    /\ pc' = "det_sub_recv"
    /\ UNCHANGED <<tabular, config, http, task, chans, message_id, after_cursor, all_data,
                   response, data, idx, files, error, served, env_ok>>

\* Mutant of DetailSubRecv: the detail is decoded before it is unsubscribed.
DetailSubRecv_NoUnsub ==
    /\ pc = "det_sub_recv"
    /\ \E f \in DetailFrames :
          /\ response' = f
          /\ env_ok' = (env_ok /\ f # GarbageFrame)
    /\ wire' = Append(wire, Received("sub", det_message_id))
    /\ pc' = "det_decode"
    /\ UNCHANGED <<tabular, config, http, task, chans, message_id, after_cursor, all_data, data,
                   idx, det_message_id, files, error, served>>

\* Line 145: the detail response, whatever the server sends.
DetailSubRecv ==
    /\ pc = "det_sub_recv"
    /\ \E f \in DetailFrames :
          /\ response' = f
          /\ env_ok' = (env_ok /\ f # GarbageFrame)
    /\ wire' = Append(wire, Received("sub", det_message_id))
    /\ pc' = "det_unsub_send"
    /\ UNCHANGED <<tabular, config, http, task, chans, message_id, after_cursor, all_data, data,
                   idx, det_message_id, files, error, served>>

\* Line 146.
DetailUnsubSend ==
    /\ pc = "det_unsub_send"
    /\ wire' = Append(wire, Sent("unsub", det_message_id, "", JNull))
    /\ pc' = "det_unsub_recv"
    /\ UNCHANGED <<tabular, config, http, task, chans, paging, files, error, served, env_ok>>

\* Line 147.
DetailUnsubRecv ==
    /\ pc = "det_unsub_recv"
    /\ wire' = Append(wire, Received("unsub", det_message_id))
    /\ pc' = "det_decode"
    /\ UNCHANGED <<tabular, config, http, task, chans, paging, files, error, served, env_ok>>

\* Mutant of DetailDecode: the id the enricher used is not handed back, so
\* the caller's message_id stays behind.
DetailDecode_IdNotReturned ==
    /\ pc = "det_decode"
    /\ LET response_data == ExtractObject(response) IN
          IF response_data.t = "JSONDecodeError"
          THEN /\ Raise("JSONDecodeError")
               /\ UNCHANGED <<message_id, all_data, response, data, idx>>
          ELSE \E details \in {TransactionData(response_data)} :
                 LET items == Get(data, "items", JNull).l
                     transaction == Update(items[idx], details)
                 IN /\ message_id' = message_id
                    /\ data' = SetItem(data, "items",
                                       JList([items EXCEPT ![idx] = transaction]))
                    /\ all_data' = Append(all_data, transaction)
                    /\ idx' = idx + 1
                    /\ response' = NoFrame
                    /\ pc' = "item"
                    /\ UNCHANGED <<chans, error>>
    /\ UNCHANGED <<tabular, config, http, task, wire, after_cursor, det_message_id, files,
                   served, env_ok>>

\* Lines 149-167 and 217-221: decode the detail, hand the id back to the
\* caller, merge the details into the item (in place) and append it.
DetailDecode ==
    /\ pc = "det_decode"
    /\ \E response_data \in {ExtractObject(response)} :
          IF response_data.t = "JSONDecodeError"
          THEN /\ Raise("JSONDecodeError")
               /\ UNCHANGED <<message_id, all_data, response, data, idx>>
          ELSE \E details \in {TransactionData(response_data)} :
               \E items \in {Get(data, "items", JNull).l} :
               \E transaction \in {Update(items[idx], details)} :
                    /\ message_id' = det_message_id
                    /\ data' = SetItem(data, "items",
                                       JList([items EXCEPT ![idx] = transaction]))
                    /\ all_data' = Append(all_data, transaction)
                    /\ idx' = idx + 1
                    /\ response' = NoFrame
                    /\ pc' = "item"
                    /\ UNCHANGED <<chans, error>>
    /\ UNCHANGED <<tabular, config, http, task, wire, after_cursor, det_message_id, files,
                   served, env_ok>>

(***************************************************************************)
(* Leaving the `async with`, writing the output, the profile fetch.        *)
(***************************************************************************)
\* Mutant of Close: the body is left without closing the transport.
Close_LeavesOpen ==
    /\ pc = "close"
    /\ pc' = IF task = "tx" THEN "tx_write" ELSE "done"
    /\ UNCHANGED <<tabular, config, http, task, chans, wire, paging, files, error, served, env_ok>>

\* Lines 189 and 252: __aexit__ on normal completion of the body.
Close ==
    /\ pc = "close"
    /\ chans' = Closed(chans)
    /\ pc' = IF task = "tx" THEN "tx_write" ELSE "done"
    /\ UNCHANGED <<tabular, config, http, task, wire, paging, files, error, served, env_ok>>

File(name, records) == [name |-> name, records |-> records]

\* Mutant of WriteTransactions: the csv file is written for an empty table too.
WriteTransactions_CsvAlways ==
    /\ pc = "tx_write"
    /\ files' =
          IF Lower(output_format) = <<"j", "s", "o", "n">>
          THEN files \cup {File("trade_republic_transactions.json", Len(all_data))}
          ELSE LET table == CHOOSE t \in {flatten_and_clean_json(all_data)} : TRUE
               IN files \cup {File("trade_republic_transactions.csv", Len(table))}
    /\ message_id' = 0
    /\ after_cursor' = JNull
    /\ all_data' = <<>>
    /\ response' = NoFrame
    /\ data' = NoData
    /\ idx' = 0
    /\ det_message_id' = 0
    /\ task' = "profile"
    /\ pc' = "connect"
    /\ UNCHANGED <<tabular, config, http, chans, wire, error, served, env_ok>>

\* Lines 229-242, then line 362: the transactions file (json: always; csv:
\* only if there is a row), and asyncio.run(profile_cash). The coroutine's
\* locals end with it.
WriteTransactions ==
    /\ pc = "tx_write"
    /\ files' =
          IF Lower(output_format) = <<"j", "s", "o", "n">>
          THEN files \cup {File("trade_republic_transactions.json", Len(all_data))}
          ELSE LET table == CHOOSE t \in {flatten_and_clean_json(all_data)} : TRUE
               IN IF table # <<>>
                  THEN files \cup {File("trade_republic_transactions.csv", Len(table))}
                  ELSE files
    /\ message_id' = 0
    /\ after_cursor' = JNull
    /\ all_data' = <<>>
    /\ response' = NoFrame
    /\ data' = NoData
    /\ idx' = 0
    /\ det_message_id' = 0
    /\ task' = "profile"
    /\ pc' = "connect"
    /\ UNCHANGED <<tabular, config, http, chans, wire, error, served, env_ok>>

\* Lines 253-254: the availableCash subscription, always with id 1.
ProfileSubSend ==
    /\ pc = "prof_sub_send"
    /\ wire' = Append(wire, Sent("sub", 1, "availableCash", JNull))
    /\ pc' = "prof_sub_recv"
    /\ UNCHANGED <<tabular, config, http, task, chans, paging, files, error, served, env_ok>>

\* Line 255.
ProfileSubRecv ==
    /\ pc = "prof_sub_recv"
    /\ \E f \in ProfileFrames : response' = f
    /\ wire' = Append(wire, Received("sub", 1))
    /\ pc' = "prof_decode"
    /\ UNCHANGED <<tabular, config, http, task, chans, message_id, after_cursor, all_data, data,
                   idx, det_message_id, files, error, served, env_ok>>

\* Lines 257-280: decode the array and write the profile file.
ProfileDecode ==
    /\ pc = "prof_decode"
    /\ LET response_data == ExtractArray(response) IN
          IF response_data.t = "JSONDecodeError"
          THEN /\ Raise("JSONDecodeError")
               /\ UNCHANGED <<response, files>>
          ELSE /\ files' =
                    IF Lower(output_format) = <<"j", "s", "o", "n">>
                    THEN files \cup {File("trade_republic_profile_cash.json",
                                          Len(response_data.l))}
                    ELSE LET table == CHOOSE t \in {flatten_and_clean_json(
                                                        response_data.l)} : TRUE
                         IN IF table # <<>>
                            THEN files \cup {File("trade_republic_profile_cash.csv",
                                                  Len(table))}
                            ELSE files
               /\ response' = NoFrame
               /\ pc' = "close"
               /\ UNCHANGED <<chans, error>>
    /\ UNCHANGED <<tabular, config, http, task, wire, message_id, after_cursor, all_data, data,
                   idx, det_message_id, served, env_ok>>

(***************************************************************************)
(* The csv output of fetch_all_transactions (lines 234-242) step by step,  *)
(* started on any batch of records.                                        *)
(***************************************************************************)
PipeInit ==
    /\ pc = "flatten"
    /\ output_format = <<"c", "s", "v">>
    /\ extract_details = FALSE
    /\ http = TRUE
    /\ task = "tx"
    /\ chans = <<[owner |-> "tx", open |-> FALSE]>>
    /\ wire = <<>>
    /\ message_id = 0
    /\ after_cursor = JNull
    /\ all_data \in Batches
    /\ response = NoFrame
    /\ data = NoData
    /\ idx = 0
    /\ det_message_id = 0
    /\ files = {}
    /\ error = "none"
    /\ served = <<>>
    /\ env_ok = TRUE
    /\ flattened_data = <<>>
    /\ df = <<>>

\* Lines 235-236: flatten the batch; an empty result writes nothing.
FlattenAndClean ==
    /\ pc = "flatten"
    /\ flattened_data' = flatten_and_clean_json(all_data)
    /\ pc' = IF flattened_data' # <<>> THEN "dropna" ELSE "written"
    /\ UNCHANGED <<config, http, task, chans, wire, paging, files, error, served,
                   env_ok, df>>

\* Lines 237-238: the DataFrame of the flattened records, without the
\* columns that are missing in every row.
DataFrameDropNa ==
    /\ pc = "dropna"
    /\ df' = DropNa(flattened_data)
    /\ pc' = "transform"
    /\ UNCHANGED <<config, http, task, chans, wire, paging, files, error, served,
                   env_ok, flattened_data>>

\* Line 239.
TransformDataTypes ==
    /\ pc = "transform"
    /\ df' = transform_data_types(df)
    /\ pc' = "to_csv"
    /\ UNCHANGED <<config, http, task, chans, wire, paging, files, error, served,
                   env_ok, flattened_data>>

\* Lines 240-242: one line per row.
ToCsv ==
    /\ pc = "to_csv"
    /\ files' = files \cup {File("trade_republic_transactions.csv", Len(df))}
    /\ pc' = "written"
    /\ UNCHANGED <<config, http, task, chans, wire, paging, error, served, env_ok,
                   tabular>>

PipeNext ==
    \/ FlattenAndClean
    \/ DataFrameDropNa
    \/ TransformDataTypes
    \/ ToCsv

PipeSpec == PipeInit /\ [][PipeNext]_vars

Next ==
    \/ Validate
    \/ Login
    \/ TwoFactor
    \/ Connect
    \/ HandshakeSend
    \/ HandshakeRecv
    \/ TransportFail
    \/ PageSubSend
    \/ PageSubRecv
    \/ PageUnsubSend
    \/ PageUnsubRecv
    \/ PageDecode
    \/ ItemsExtend
    \/ ItemNext
    \/ PageCursor
    \/ DetailSubSend
    \/ DetailSubRecv
    \/ DetailUnsubSend
    \/ DetailUnsubRecv
    \/ DetailDecode
    \/ Close
    \/ WriteTransactions
    \/ ProfileSubSend
    \/ ProfileSubRecv
    \/ ProfileDecode

Spec == Init /\ [][Next]_vars

\* A single coroutine runs at a time and the event loop resumes it whenever
\* its await completes: a step that can be taken is taken.
FairSpec == Spec /\ WF_vars(Next)

(***************************************************************************)
(* Vocabulary of the properties.                                           *)
(***************************************************************************)
\* The paging loop of fetch_all_transactions is running / has been left by
\* one of its two `break`s.
LoopPcs ==
    {"page_sub_send", "page_sub_recv", "page_unsub_send", "page_unsub_recv",
     "page_decode", "extend", "item", "det_sub_send", "det_sub_recv",
     "det_unsub_send", "det_unsub_recv", "det_decode", "cursor"}
InLoop == task = "tx" /\ pc \in LoopPcs
LoopDone == task = "tx" /\ pc \in {"close", "tx_write"}

\* The wire positions of the frames of one kind.
SubSends == {i \in DOMAIN wire : wire[i].dir = "send" /\ wire[i].op = "sub"}
UnsubAcks == {i \in DOMAIN wire : wire[i].dir = "recv" /\ wire[i].op = "unsub"}
TxSubSends == {i \in SubSends : chans[wire[i].ch].owner = "tx"}

\* C1: when the server serves well-formed pages and the transport holds, the
\* paging loop is left through a `break`, and the accumulator then holds as
\* many items as the pages served carried in all, with and without details.
C1_PagingTerminatesComplete ==
    /\ (InLoop /\ env_ok) ~> (LoopDone \/ ~env_ok)
    /\ [](LoopDone /\ env_ok => Len(all_data) = Len(served))

\* C1 witness: the loop was left after two pages, the first with an item and
\* a cursor, and both items are accumulated.
C1_Witness ==
    /\ LoopDone /\ env_ok
    /\ PageRequests = 2
    /\ Len(all_data) = 2

\* An accumulated item is the served item it came from: the very item when
\* the enricher did not touch it, else an item that kept every key and still
\* has the served id or the served title (a detail of the model overwrites
\* one of the two at most).
SameItem(item, raw) ==
    IF extract_details /\ Truthy(Get(raw, "id", JNull))
    THEN /\ Keys(raw) \subseteq Keys(item)
         /\ \/ Get(item, "id", JNull) = Get(raw, "id", JNull)
            \/ Get(item, "title", JNull) = Get(raw, "title", JNull)
    ELSE item = raw

\* C2: at every point all_data is the concatenation of the items of the pages
\* served, in the order served, up to the item being processed: nothing is
\* reordered, duplicated or dropped, with and without details.
C2_AccumulatorInServerOrder ==
    /\ Len(all_data) <= Len(served)
    /\ \A k \in DOMAIN all_data : SameItem(all_data[k], served[k])
    /\ (task = "tx" /\ pc \in {"page_sub_send", "page_sub_recv", "cursor", "close", "tx_write"})
          => Len(all_data) = Len(served)
    /\ pc \in {"item", "det_sub_send", "det_sub_recv", "det_unsub_send",
               "det_unsub_recv", "det_decode"}
          => Len(all_data) = Len(served) - Len(Get(data, "items", JNull).l) + idx - 1

\* C2 witness: with details on, two pages were processed and the accumulator
\* holds an enriched item of the first before a plain item of the second.
C2_Witness ==
    /\ LoopDone /\ extract_details
    /\ PageRequests = 2
    /\ Len(all_data) = 2
    /\ "Status" \in Keys(all_data[1])
    /\ all_data[2] = ItemNoId

\* A transport closed by its coroutine running to the end of the `async
\* with` body (not by an exception).
NormallyClosed(c) == ~chans[c].open /\ (c < Len(chans) \/ error = "none")

\* The acknowledged `unsub` of the `sub` sent at wire position i.
AcksOf(i) ==
    {k \in (i + 1)..Len(wire) :
        /\ wire[k].dir = "recv" /\ wire[k].op = "unsub"
        /\ wire[k].ch = wire[i].ch /\ wire[k].id = wire[i].id}

\* C3: every `sub <id>` is followed by an acknowledged `unsub <id>` before the
\* next `sub` on its channel and before the channel is closed.
C3_EverySubUnsubscribed ==
    \A i \in SubSends :
        /\ \A j \in SubSends :
              (j > i /\ wire[j].ch = wire[i].ch) => \E k \in AcksOf(i) : k < j
        /\ NormallyClosed(wire[i].ch) => AcksOf(i) # {}

\* C4: in fetch_all_transactions the ids of the `sub` frames start at 1 and
\* strictly increase over page and detail subscriptions alike, so no id is
\* used twice and no detail subscription shares an id with a page one.
C4_SubIdsStrictlyIncrease ==
    /\ \A i, j \in TxSubSends : i < j => wire[i].id < wire[j].id
    /\ \A i \in TxSubSends : (\A j \in TxSubSends : i <= j) => wire[i].id = 1
    /\ \A i, j \in TxSubSends : wire[i].type # wire[j].type => wire[i].id # wire[j].id

\* C4 witness: a page subscription, then a detail subscription, then the next
\* page subscription.
C4_Witness ==
    \E i, j, k \in TxSubSends :
        /\ i < j /\ j < k
        /\ wire[i].type = "timelineTransactions"
        /\ wire[j].type = "timelineDetailV2"
        /\ wire[k].type = "timelineTransactions"

\* C5: decoding a response frame never raises: a frame that carries no valid
\* JSON is read as the empty object (or array) and the run goes on.
C5_DecodingNeverRaises == error # "JSONDecodeError"

\* C6: when the run has ended, normally or by an exception, every transport
\* that was opened is closed, and no frame was sent on a closed transport.
C6_TransportAlwaysClosed ==
    /\ pc \in {"done", "aborted"} => \A c \in DOMAIN chans : ~chans[c].open
    /\ \A i \in DOMAIN wire : wire[i].dir = "send" => wire[i].open

\* The frame before position i on the same channel (0 if there is none).
PrevOn(i) ==
    IF i > 1 /\ wire[i - 1].ch = wire[i].ch THEN i - 1
    ELSE LET before == {j \in 1..(i - 1) : wire[j].ch = wire[i].ch}
         IN IF before = {} THEN 0 ELSE CHOOSE j \in before : \A k \in before : k <= j

\* The subscriptions of channel c that are not unsubscribed and acknowledged.
Live(c) ==
    {i \in DOMAIN wire :
        /\ wire[i].dir = "send" /\ wire[i].op = "sub" /\ wire[i].ch = c
        /\ ~\E k \in (i + 1)..Len(wire) :
               /\ wire[k].dir = "recv" /\ wire[k].op = "unsub"
               /\ wire[k].ch = c /\ wire[k].id = wire[i].id}

\* C7: on every channel sends and receives alternate, each receive answering
\* the frame just sent, so at most one frame awaits its response; and at most
\* one subscription is live at any time.
C7_OneRequestInFlight ==
    /\ \A i \in DOMAIN wire : \E prev \in {PrevOn(i)} :
          IF prev = 0 THEN wire[i].dir = "send"
          ELSE /\ wire[i].dir # wire[prev].dir
               /\ wire[i].dir = "recv" =>
                     /\ wire[i].op = wire[prev].op
                     /\ wire[i].id = wire[prev].id
    /\ \A c \in DOMAIN chans : Cardinality(Live(c)) <= 1

\* C7 witness: a detail subscription awaits its response, the page
\* subscription before it unsubscribed and acknowledged.
C7_Witness ==
    /\ pc = "det_sub_recv"
    /\ wire[Len(wire)].type = "timelineDetailV2"
    /\ Cardinality(Live(Cur)) = 1

\* C8: a page payload of an unexpected shape (items or cursors missing, null
\* or empty) ends the paging loop without raising.
C8_ShapeMismatchNeverRaises == error # "AttributeError"

\* C9: the two coroutines use separate channels, one after the other: at most
\* one transport is open at any time, the profile's is opened only after the
\* transaction sync's is closed, and every frame travels on a transport of
\* the coroutine that sends or receives it.
C9_ChannelsSequentialAndSeparate ==
    /\ Cardinality({c \in DOMAIN chans : chans[c].open}) <= 1
    /\ \A c, d \in DOMAIN chans :
          (chans[c].owner = "tx" /\ chans[d].owner = "profile")
             => c < d /\ ~chans[c].open
    /\ \A i \in DOMAIN wire : wire[i].task = chans[wire[i].ch].owner

\* C9 witness: the profile fetch has subscribed on its own, open transport.
C9_Witness ==
    /\ pc = "prof_sub_recv"
    /\ chans[Cur].owner = "profile" /\ chans[Cur].open
    /\ \E c \in DOMAIN chans : chans[c].owner = "tx"

\* C10: when output_format, lower-cased, is neither json nor csv, the run
\* stops at the validation: no HTTP request is sent, no transport is opened.
C10_UnknownFormatNoNetwork ==
    Lower(output_format) \notin KnownFormats
       => /\ pc \in {"start", "exited"}
          /\ ~http
          /\ chans = <<>>
          /\ wire = <<>>

\* C10 witness: the run has exited on an unknown format.
C10_Witness == pc = "exited" /\ Lower(output_format) \notin KnownFormats

\* The transaction sync was ended by a failure of the transport.
SyncTransportFailed ==
    /\ error = "ConnectionClosed"
    /\ task = "tx"

\* C11: when a websocket operation fails during the transaction sync, the run
\* is aborted by that failure: no output file is written, whatever was
\* accumulated, and the profile fetch is never started.
C11_NoPartialOutputOnTransportFailure ==
    SyncTransportFailed
       => /\ pc = "aborted"
          /\ files = {}
          /\ \A c \in DOMAIN chans : chans[c].owner = "tx"
          /\ \A i \in DOMAIN wire : wire[i].task = "tx"

\* C11 witness: the transport failed after a page of items had been
\* accumulated.
C11_Witness ==
    /\ SyncTransportFailed
    /\ pc = "aborted"
    /\ all_data # <<>>
    /\ PageRequests = 2

\* The leaves of a nested record, in document order: each value that is no
\* mapping, at the path of its keys joined by ".".
RECURSIVE LeafPaths(_, _, _)
LeafPaths(record, i, prefix) ==
    IF i > Len(record.kv) THEN <<>>
    ELSE LET path == IF prefix = "" THEN record.kv[i].k
                     ELSE prefix \o "." \o record.kv[i].k
         IN (IF IsObj(record.kv[i].v)
             THEN LeafPaths(record.kv[i].v, 1, path)
             ELSE <<KV(path, record.kv[i].v)>>)
            \o LeafPaths(record, i + 1, prefix)

\* The key sequence of a record, and a sequence without its repetitions.
KeySeq(record) == [k \in DOMAIN record.kv |-> record.kv[k].k]
FirstSeen(keys) ==
    LET IsFirst(i) == \A j \in 1..(i - 1) : keys[j] # keys[i]
        firsts == {i \in DOMAIN keys : IsFirst(i)}
        Nth(r) == CHOOSE i \in firsts : Cardinality({j \in firsts : j <= i}) = r
    IN [r \in 1..Cardinality(firsts) |-> keys[Nth(r)]]

\* The leaf keys of a whole batch, in first-seen order.
RECURSIVE BatchLeafKeys(_, _)
BatchLeafKeys(records, i) ==
    IF i > Len(records) THEN <<>>
    ELSE KeySeq(JObj(LeafPaths(records[i], 1, ""))) \o BatchLeafKeys(records, i + 1)

\* C12: flattening one nested record gives a record whose keys are exactly
\* the dot-joined paths of its leaves, each with the leaf's value; a key that
\* holds a mapping gets no key of its own.
C12_FlattenKeysAreLeafPaths ==
    (pc # "flatten" /\ Len(all_data) = 1)
       => LET leaves == JObj(LeafPaths(all_data[1], 1, ""))
              flat == flattened_data[1]
          IN /\ Len(flattened_data) = 1
             /\ Keys(flat) = Keys(leaves)
             /\ \A k \in Keys(leaves) : Get(flat, k, JNull) = Get(leaves, k, JNull)

\* C13: flattening a batch gives one record per input record, in order, all
\* over the same key sequence: the leaf keys of the batch in first-seen
\* order; a record holds its own leaf's value at a key and null at a key it
\* lacks.
C13_FlattenColumnsFirstSeenPadded ==
    pc # "flatten"
       => /\ Len(flattened_data) = Len(all_data)
          /\ \A r \in DOMAIN flattened_data :
                LET leaves == JObj(LeafPaths(all_data[r], 1, ""))
                IN /\ KeySeq(flattened_data[r]) = FirstSeen(BatchLeafKeys(all_data, 1))
                   /\ \A k \in Keys(flattened_data[r]) :
                         Get(flattened_data[r], k, JNull) = Get(leaves, k, JNull)

\* The titles of the entries a detail frame carries in sections titled
\* "Transaction" (none when the frame holds no object or no such section).
EntryTitles(frame) ==
    IF ~IsObjectFrame(frame) THEN {}
    ELSE LET sections == Get(JObj(frame[3].v), "sections", JList(<<>>)).l
         IN {Get(entry, "title", JNull) :
               entry \in UNION {{Get(sections[n], "data", JList(<<>>)).l[m] :
                                   m \in DOMAIN Get(sections[n], "data", JList(<<>>)).l} :
                                n \in {n \in DOMAIN sections :
                                         Get(sections[n], "title", JNull)
                                            = JStr("Transaction")}}}

\* C14: the step that merges a detail into an item keeps every key of the
\* item; a value changes only at a key that an entry of a section titled
\* "Transaction" names; and with no such section, or a frame that decodes to
\* the empty object, the item is appended exactly as it was served.
C14_EnrichmentOnlyAddsOrOverwrites ==
    [][(pc = "det_decode" /\ pc' = "item")
          => LET before == Get(data, "items", JNull).l[idx]
                 after == all_data'[Len(all_data')]
             IN /\ Len(all_data') = Len(all_data) + 1
                /\ Keys(before) \subseteq Keys(after)
                /\ \A k \in Keys(before) :
                      Get(after, k, JNull) # Get(before, k, JNull)
                         => JStr(k) \in EntryTitles(response)
                /\ EntryTitles(response) = {} => after = before]_vars

\* C14 witness: one item came out of the enricher with a new key and an
\* overwritten title, another one unchanged.
C14_Witness ==
    /\ extract_details
    /\ pc = "item"
    /\ \E i, j \in DOMAIN all_data :
          /\ Get(all_data[i], "id", JNull) = JStr("t1")
          /\ Get(all_data[i], "title", JNull) = JStr("Achat")
          /\ Get(all_data[i], "Status", JNull) = JStr("Done")
          /\ i < j
          /\ all_data[j] = ItemWithId

\* The cells the coercion can read: the timestamps that are dates, with the
\* text of their day, and the numbers; a cell that is there and cannot be
\* read is unparsable.
DateCells ==
    {JStr("2024-03-05T10:00:00Z"), JStr("2023-12-31T23:59:59.000+0000")}
DateText(cell) == IF cell = JStr("2024-03-05T10:00:00Z") THEN "05/03/2024" ELSE "31/12/2023"
IsNumberCell(cell) == cell.t = "num"
Unparsable(col, cell) ==
    /\ cell # JNull
    /\ IF col = "timestamp" THEN cell \notin DateCells ELSE ~IsNumberCell(cell)
DesignatedColumns ==
    {"timestamp", "amount.value", "amount.fractionDigits",
     "subAmount.value", "subAmount.fractionDigits"}

\* C15: transform_data_types does not raise and keeps the rows and the
\* columns; in a designated column an unparsable cell becomes null, and the
\* other cells of a column that has one are still coerced: a date becomes
\* its DD/MM/YYYY text, a number a text with no "."; every column that is
\* not designated is unchanged.
C15_CoercionPerCellFailSoft ==
    [][pc = "transform"
          => /\ Len(df') = Len(df)
             /\ pc' = "to_csv"
             /\ error' = "none"
             /\ \A r \in DOMAIN df :
                   /\ KeySeq(df'[r]) = KeySeq(df[r])
                   /\ \A col \in Keys(df[r]) :
                         LET old == Get(df[r], col, JNull)
                             new == Get(df'[r], col, JNull)
                             spoiled == \E q \in DOMAIN df :
                                           Unparsable(col, Get(df[q], col, JNull))
                         IN IF col \notin DesignatedColumns THEN new = old
                            ELSE /\ Unparsable(col, old) => new = JNull
                                 /\ (spoiled /\ old \in DateCells /\ col = "timestamp")
                                       => new = JStr(DateText(old))
                                 /\ (spoiled /\ IsNumberCell(old) /\ col # "timestamp")
                                       => /\ new.t = "str"
                                          /\ new.s \notin {"", "nan", "None"}
                                          /\ old = JNum(<<"1", "2", "3", "4", ".", "5">>)
                                                => new = JStr("1234,5")]_vars

\* The page requests on the wire, and the response to the one at i (the
\* next frame on the wire).
PageSends == {i \in DOMAIN wire :
                 wire[i].dir = "send" /\ wire[i].type = "timelineTransactions"}
HasResponse(i) == i + 1 \in DOMAIN wire /\ wire[i + 1].dir = "recv"
FirstPageSend(i) == \A j \in PageSends : i <= j
NextPageSend(i, j) == i < j /\ \A k \in PageSends : ~(i < k /\ k < j)

\* C16: the first page request has no `after`; every later one carries the
\* `cursors.after` of the page response just before it, and that page had
\* items and a non-empty cursor (so no request follows a page without them).
C16_CursorChain ==
    \A i \in PageSends :
       /\ FirstPageSend(i) => wire[i].arg = JNull
       /\ \A j \in PageSends :
             NextPageSend(i, j)
                => /\ HasResponse(i)
                   /\ wire[i + 1].type = "items"
                   /\ Truthy(wire[i + 1].arg)
                   /\ wire[j].arg = wire[i + 1].arg

\* C16 witness: the loop ended after two page requests, the second carrying
\* the first page's cursor, on a page that had items but an empty cursor.
C16_Witness ==
    /\ LoopDone
    /\ \E i, j \in PageSends :
          /\ NextPageSend(i, j)
          /\ wire[i].arg = JNull
          /\ wire[j].arg = JStr(Cursor(1))
          /\ HasResponse(j)
          /\ wire[j + 1].type = "items"
          /\ wire[j + 1].arg = JStr("")
          /\ \A k \in PageSends : k <= j

\* The ids of a sequence of items, and the detail requests a run with
\* details makes for the items served: one per item with a non-empty id.
IdsOf(items) == [k \in DOMAIN items |-> Get(items[k], "id", JNull)]
HasId(item) == Truthy(Get(item, "id", JNull))
DetailsDue ==
    IF extract_details THEN Cardinality({k \in DOMAIN served : HasId(served[k])}) ELSE 0
RequestsAddUp ==
    /\ \A k \in DOMAIN served : ~HasId(served[k]) => all_data[k] = served[k]
    /\ Cardinality(TxSubSends) = PageRequests + DetailsDue
    /\ message_id = PageRequests + DetailsDue

\* C17 as the spec states it: when the loop is done the ids accumulated are
\* the ids served (what a run without details accumulates), an item with no
\* id is accumulated as served, and P pages with K items with an id have
\* cost P + K `sub` frames, the last with id P + K.
C17_EnrichmentKeepsIds ==
    LoopDone
       => /\ IdsOf(all_data) = IdsOf(served)
          /\ RequestsAddUp

\* C17, amended: when the loop is done there is one accumulated item per item
\* served, an item with no id is accumulated as served, and P pages with K
\* items with an id have cost P + K `sub` frames, the last with id P + K; an
\* enriched item has the served id unless the detail has a Transaction entry
\* titled `id`, whose text replaces it.
C17_EnrichmentKeepsIdsUnlessOverwritten ==
    /\ [](LoopDone => (Len(all_data) = Len(served) /\ RequestsAddUp))
    /\ [](LoopDone /\ ~extract_details => all_data = served)
    /\ [][(pc = "det_decode" /\ pc' = "item")
             => LET before == Get(data, "items", JNull).l[idx]
                    after == all_data'[Len(all_data')]
                IN /\ before = served[Len(all_data')]
                   /\ \/ Get(after, "id", JNull) = Get(before, "id", JNull)
                      \/ JStr("id") \in EntryTitles(response)]_vars

\* C17 witness: with details on, the loop is done over an item with an id,
\* whose detail replaced the id, and an item without, accumulated as served:
\* one page request more than pages continued, one detail request.
C17_Witness ==
    /\ LoopDone /\ extract_details
    /\ Len(all_data) = 2 /\ Len(served) = 2
    /\ \E k, j \in DOMAIN all_data :
          /\ served[k] = ItemWithId
          /\ Get(all_data[k], "id", JNull) = JStr("t9")
          /\ served[j] = ItemNoId
          /\ all_data[j] = ItemNoId
    /\ DetailsDue = 1
    /\ message_id = PageRequests + 1

\* A response is being decoded, or decoding or reading one has raised.
Decoding ==
    /\ task = "tx"
    /\ \/ pc \in {"page_decode", "det_decode"}
       \/ error \in {"JSONDecodeError", "AttributeError"}

\* C18: whenever a response of the sync is being decoded, and whenever
\* decoding or reading one has raised, every `sub` sent has had its `unsub`
\* sent and acknowledged, the one whose response is at hand included.
C18_UnsubPrecedesDecoding ==
    Decoding
       => \A i \in TxSubSends :
             \E k \in AcksOf(i) :
                /\ wire[k - 1].dir = "send" /\ wire[k - 1].op = "unsub"
                /\ wire[k - 1].id = wire[i].id
                /\ i < k - 1

\* C18 witness: decoding a detail response raised after its subscription,
\* the last of the run, was unsubscribed and acknowledged.
C18_Witness ==
    /\ task = "tx" /\ error = "JSONDecodeError" /\ pc = "aborted"
    /\ \E i \in TxSubSends :
          /\ wire[i].type = "timelineDetailV2"
          /\ \A j \in TxSubSends : j <= i
          /\ AcksOf(i) = {Len(wire)}

\* The transactions files written, and the sync's transport being closed
\* with its loop run to the end.
TxFiles == {f \in files : f.name \in {"trade_republic_transactions.json",
                                      "trade_republic_transactions.csv"}}
SyncClosed ==
    /\ chans # <<>>
    /\ chans[1].owner = "tx" /\ ~chans[1].open

\* C19: no transactions file exists before the sync's loop is done and its
\* transport closed; the step that writes it writes, in json mode, a file of
\* everything accumulated, be it nothing, and in csv mode a file of as many
\* rows as items accumulated, and no file at all when there are none.
C19_OutputOnlyAfterSync ==
    /\ [](TxFiles # {} => task = "profile" /\ SyncClosed)
    /\ [](pc = "tx_write" => task = "tx" /\ SyncClosed /\ error = "none")
    /\ [][pc = "tx_write"
             => IF Lower(output_format) = <<"j", "s", "o", "n">>
                THEN files' = {File("trade_republic_transactions.json", Len(all_data))}
                ELSE IF all_data = <<>>
                     THEN files' = {}
                     ELSE files' = {File("trade_republic_transactions.csv", Len(all_data))}]_vars

\* C19 witness: in csv mode the sync ran to its end over a page without
\* items, the transport is closed, the profile has started and there is no
\* transactions file.
C19_Witness ==
    /\ task = "profile" /\ SyncClosed
    /\ Lower(output_format) = <<"c", "s", "v">>
    /\ served = <<>>
    /\ PageRequests = 1
    /\ TxFiles = {}

====
